---- MODULE Spec2Model ----
(***************************************************************************)
(* Model of josephdavis1987/weather-model.                                 *)
(*                                                                         *)
(*   utils/nasa_power_api.py      fetch_nasa_power_data: one HTTP GET, the  *)
(*                                JSON parameter block reshaped into a      *)
(*                                table (variables f_pc .. f_error).        *)
(*   03.02-model-prophet_test.py  the forecast driver script (variables     *)
(*                                d_pc .. d_error).                         *)
(*                                                                         *)
(* The two pieces share no state; SpecFetch runs the fetcher alone and     *)
(* SpecDriver the driver alone.                                            *)
(*                                                                         *)
(* Readings are JSON numbers; they are modelled as integers (tenths of a   *)
(* unit).  A date key "YYYYMMDD" is modelled by its decimal reading.       *)
(***************************************************************************)
EXTENDS Integers, Sequences, FiniteSets, TLC

VARIABLES
    \* ---- fetch_nasa_power_data
    f_pc,         \* position in the function body
    location,     \* argument `location`
    lat,          \* argument `lat`
    lon,          \* argument `lon`
    requests,     \* number of outbound HTTP requests issued so far
    status,       \* resp.status_code (0: no response yet / none received)
    data,         \* resp.json()
    param_block,  \* data["properties"]["parameter"]
    dates,        \* list(param_block["T2M"].keys())
    df,           \* the DataFrame under construction / returned
    f_error,      \* the exception that ended the call ("" : none)
    \* ---- forecast driver script
    d_pc,         \* position in the script
    file,         \* what is stored at data/weather_train.parquet
    train,        \* pd.read_parquet(train_path)
    df_train,     \* filtered, sorted, re-indexed table
    prophet_df,   \* the two-column (ds, y) series
    future,       \* m.make_future_dataframe(...) (<<>> : never built)
    d_error       \* the exception that ended the script ("" : none)

f_vars == <<f_pc, location, lat, lon, requests, status, data, param_block,
            dates, df, f_error>>
d_vars == <<d_pc, file, train, df_train, prophet_df, future, d_error>>
vars   == <<f_vars, d_vars>>

\* Generic helpers

Range(s) == {s[i] : i \in DOMAIN s}

IsInjective(s) == \A i, j \in DOMAIN s : s[i] = s[j] => i = j

\* Calendar

IsLeap(y) == (y % 4 = 0 /\ y % 100 # 0) \/ y % 400 = 0

DaysInMonth(y, m) ==
    IF m = 2 THEN (IF IsLeap(y) THEN 29 ELSE 28)
    ELSE IF m \in {4, 6, 9, 11} THEN 30 ELSE 31

ValidDate(y, m, d) == m \in 1..12 /\ d >= 1 /\ d <= DaysInMonth(y, m)

RECURSIVE DaysBefore(_, _)
DaysBefore(y, m) == IF m <= 1 THEN 0 ELSE DaysBefore(y, m - 1) + DaysInMonth(y, m - 1)

\* Series.dt.dayofyear
DayOfYear(ts) == DaysBefore(ts.year, ts.month) + ts.day

\* Chronological position of a timestamp (a key that orders timestamps).
Ordinal(ts) == ts.year * 10000 + ts.month * 100 + ts.day

\* pd.to_datetime(key, format="%Y%m%d"): the year, month and day fields of the
\* eight-digit key.
YmdYear(k)  == k \div 10000
YmdMonth(k) == (k \div 100) % 100
YmdDay(k)   == k % 100
ToDatetimeYmd(k) == [year |-> YmdYear(k), month |-> YmdMonth(k), day |-> YmdDay(k)]

\* Fetcher: the request and the response

\* The eleven codes of the "parameters" query argument, in request order.
Params == <<"T2M", "T2M_MAX", "T2M_MIN", "T2MDEW", "RH2M", "WS10M", "WD10M",
            "PS", "ALLSKY_SFC_SW_DWN", "ALLSKY_SFC_LW_DWN", "PRECTOTCORR">>

ParamSet == Range(Params)

\* The keys of the dict literal handed to pd.DataFrame, in insertion order.
BuiltColumns == <<"date", "t2m", "t2m_max", "t2m_min", "dewpoint", "rh2m",
                  "ws10m", "wd10m", "ps", "allsky_sw_dwn", "allsky_lw_dwn",
                  "prectotcorr">>

\* Which parameter mapping each reading column is pulled from.
ParamOf(c) ==
    CASE c = "t2m"           -> "T2M"
      [] c = "t2m_max"       -> "T2M_MAX"
      [] c = "t2m_min"       -> "T2M_MIN"
      [] c = "dewpoint"      -> "T2MDEW"
      [] c = "rh2m"          -> "RH2M"
      [] c = "ws10m"         -> "WS10M"
      [] c = "wd10m"         -> "WD10M"
      [] c = "ps"            -> "PS"
      [] c = "allsky_sw_dwn" -> "ALLSKY_SFC_SW_DWN"
      [] c = "allsky_lw_dwn" -> "ALLSKY_SFC_LW_DWN"
      [] c = "prectotcorr"   -> "PRECTOTCORR"

ReadingColumns == Range(BuiltColumns) \ {"date"}

\* The final column selection df[[...]].
Schema == <<"date", "location", "lat", "lon", "t2m", "t2m_max", "t2m_min",
            "t2m_range", "dewpoint", "rh2m", "ws10m", "wd10m", "ps",
            "allsky_sw_dwn", "allsky_lw_dwn", "prectotcorr", "day_of_year">>

\* The columns the docstring of fetch_nasa_power_data promises.
DocumentedColumns == <<"date", "location", "lat", "lon", "t2m", "t2m_max",
                       "t2m_min", "t2m_range", "t2m_dew", "rh2m", "ws10m",
                       "wd10m", "ps", "allsky_sw_dwn", "allsky_lw_dwn",
                       "prectotcorr", "day_of_year">>

\* Date keys a response may carry (days of year 365, 1, 60, 366).
DateKeys == {20191231, 20200101, 20200229, 20201231}

\* Longest key list of one parameter mapping.
MaxKeys == 2

\* Key lists of a JSON object: distinct keys, in document order.
KeySeqs ==
    {s \in UNION {[1..n -> DateKeys] : n \in 0..MaxKeys} : IsInjective(s)}

ParamIdx(p) == CHOOSE i \in DOMAIN Params : Params[i] = p

\* Levels the daily minimum temperatures of a response may sit at.
MinVals == {150, 250}

\* The reading a response stores for parameter p under date key d: every
\* (parameter, date) pair has its own value; the daily minimum sits at the
\* level lo, drawn from MinVals.
Reading(p, d, lo) ==
    IF p = "T2M_MIN" THEN lo + ((d - 20190000) \div 10)
    ELSE ParamIdx(p) * 100000 + (d - 20190000)

\* One parameter mapping: a JSON object, keys in document order.
Mapping(p, ks, lo) ==
    [keys |-> ks, val |-> [d \in Range(ks) |-> Reading(p, d, lo)]]

\* A parameter block in which every mapping lists the dates ks, except the
\* mapping of `odd`, which lists oks.
Block(ks, odd, oks, lo) ==
    [p \in ParamSet |-> Mapping(p, IF p = odd THEN oks ELSE ks, lo)]

\* The same block with the mapping of `odd` left out altogether.
BlockWithout(ks, odd, lo) ==
    [p \in ParamSet \ {odd} |-> Mapping(p, ks, lo)]

Blocks ==
    {Block(ks, odd, oks, lo) :
        ks \in KeySeqs, odd \in ParamSet, oks \in KeySeqs, lo \in MinVals}
    \cup
    {BlockWithout(ks, odd, lo) :
        ks \in KeySeqs, odd \in ParamSet, lo \in MinVals}

NoBlock == [p \in {} |-> Mapping(p, <<>>, 0)]

\* Response bodies: not JSON, JSON without properties.parameter, JSON with it.
Bodies ==
    {[kind |-> "malformed", parameter |-> NoBlock],
     [kind |-> "no_parameter", parameter |-> NoBlock]}
    \cup {[kind |-> "json", parameter |-> b] : b \in Blocks}

\* HTTP status codes the endpoint may answer with.
Statuses == {200, 404, 500}

\* Response.raise_for_status(): HTTPError for 4xx and 5xx.
RaisesForStatus_Only5xx(s) == s >= 500 /\ s < 600

RaisesForStatus(s) == s >= 400 /\ s < 600

\* Call arguments.
Locations == {"Chattanooga", "Nashville"}
LatOf(loc) == IF loc = "Chattanooga" THEN 35 ELSE 36
LonOf(loc) == IF loc = "Chattanooga" THEN -85 ELSE -87

\* Tables: a column list and a row list; a row maps column name to value.
NoTable == [columns |-> <<>>, rows |-> <<>>]

\* df[c] = vals
SetColumn(t, c, vals) ==
    [columns |-> IF c \in Range(t.columns) THEN t.columns ELSE Append(t.columns, c),
     rows    |-> [i \in DOMAIN t.rows |->
                    [x \in (DOMAIN t.rows[i]) \cup {c} |->
                        IF x = c THEN vals[i] ELSE t.rows[i][x]]]]

\* df[cols] raises KeyError unless every listed column exists.
CanSelect(t, cols) == Range(cols) \subseteq Range(t.columns)

Select(t, cols) ==
    [columns |-> cols,
     rows    |-> [i \in DOMAIN t.rows |-> [c \in Range(cols) |-> t.rows[i][c]]]]

ColumnOf(t, c) == [i \in DOMAIN t.rows |-> t.rows[i][c]]

\* list(param_block["T2M"].keys())
ReferenceDates_DropLast(pb) ==
    SubSeq(pb["T2M"].keys, 1, Len(pb["T2M"].keys) - 1)

ReferenceDates(pb) == pb["T2M"].keys

\* [param_block[p][d] for d in dates]: ok is FALSE where a lookup raises
\* KeyError (the mapping, or the date in it, is missing).
ColumnResult_Get(pb, p, ds) ==
    [ok   |-> \A i \in DOMAIN ds : p \in DOMAIN pb,
     vals |-> [i \in DOMAIN ds |->
                 IF p \in DOMAIN pb /\ ds[i] \in DOMAIN pb[p].val
                 THEN pb[p].val[ds[i]] ELSE -999]]

ColumnResult_Positional(pb, p, ds) ==
    LET ok == \A i \in DOMAIN ds : p \in DOMAIN pb /\ ds[i] \in DOMAIN pb[p].val
    IN  [ok   |-> ok,
         vals |-> IF ok THEN [i \in DOMAIN ds |-> pb[p].val[pb[p].keys[i]]] ELSE <<>>]

ColumnResult(pb, p, ds) ==
    LET ok == \A i \in DOMAIN ds : p \in DOMAIN pb /\ ds[i] \in DOMAIN pb[p].val
    IN  [ok   |-> ok,
         vals |-> IF ok THEN [i \in DOMAIN ds |-> pb[p].val[ds[i]]] ELSE <<>>]

\* df["t2m_max"] - df["t2m_min"], elementwise
TempRange_Swapped(mx, mn) == [i \in DOMAIN mx |-> mn[i] - mx[i]]

TempRange(mx, mn) == [i \in DOMAIN mx |-> mx[i] - mn[i]]

\* ---- fetch_nasa_power_data, step by step

FInit ==
    /\ f_pc = "start"
    /\ location \in Locations
    /\ lat = LatOf(location)
    /\ lon = LonOf(location)
    /\ requests = 0
    /\ status = 0
    /\ data = [kind |-> "none", parameter |-> NoBlock]
    /\ param_block = NoBlock
    /\ dates = <<>>
    /\ df = NoTable
    /\ f_error = ""

FFail(e) == f_pc' = "failed" /\ f_error' = e

\* requests.get raises (no response received).
RequestConnectionError ==
    /\ UNCHANGED d_vars
    /\ f_pc = "start"
    /\ requests' = requests + 1
    /\ FFail("ConnectionError")
    /\ UNCHANGED <<location, lat, lon, status, data, param_block, dates, df>>

\* resp = requests.get(...); resp.raise_for_status(); data = resp.json()
Request ==
    /\ UNCHANGED d_vars
    /\ f_pc = "start"
    /\ requests' = requests + 1
    /\ \E s \in Statuses, body \in Bodies :
          /\ status' = s
          /\ IF RaisesForStatus(s)
             THEN FFail("HTTPError") /\ data' = data
             ELSE IF body.kind = "malformed"
             THEN FFail("JSONDecodeError") /\ data' = data
             ELSE f_pc' = "parsed" /\ data' = body /\ f_error' = f_error
    /\ UNCHANGED <<location, lat, lon, param_block, dates, df>>

\* param_block = data["properties"]["parameter"]; dates = list(param_block["T2M"].keys())
Extract ==
    /\ UNCHANGED d_vars
    /\ f_pc = "parsed"
    /\ IF data.kind = "no_parameter" \/ "T2M" \notin DOMAIN data.parameter
       THEN /\ FFail("KeyError")
            /\ param_block' = IF data.kind = "no_parameter" THEN param_block
                              ELSE data.parameter
            /\ dates' = dates
       ELSE /\ param_block' = data.parameter
            /\ dates' = ReferenceDates(data.parameter)
            /\ f_pc' = "extracted"
            /\ f_error' = f_error
    /\ UNCHANGED <<location, lat, lon, requests, status, data, df>>

\* The row list of pd.DataFrame({...}) for the date list ds.
BuiltRows(pb, ds) ==
    [i \in DOMAIN ds |->
        [c \in Range(BuiltColumns) |->
            IF c = "date" THEN ToDatetimeYmd(ds[i])
            ELSE ColumnResult(pb, ParamOf(c), ds).vals[i]]]

\* df = pd.DataFrame({"date": ..., "t2m": [...], ...})
Build ==
    /\ UNCHANGED d_vars
    /\ f_pc = "extracted"
    /\ IF \E c \in ReadingColumns : ~ColumnResult(param_block, ParamOf(c), dates).ok
       THEN FFail("KeyError") /\ df' = df
       ELSE /\ df' = [columns |-> BuiltColumns, rows |-> BuiltRows(param_block, dates)]
            /\ f_pc' = "built"
            /\ f_error' = f_error
    /\ UNCHANGED <<location, lat, lon, requests, status, data, param_block, dates>>

Broadcast(t, v) == [i \in DOMAIN t.rows |-> v]

\* df["location"] = location; df["lat"] = lat; df["lon"] = lon
AddMetadata ==
    /\ UNCHANGED d_vars
    /\ f_pc = "built"
    /\ df' = LET a == SetColumn(df, "location", Broadcast(df, location))
                 b == SetColumn(a, "lat", Broadcast(a, lat))
             IN  SetColumn(b, "lon", Broadcast(b, lon))
    /\ f_pc' = "metadata"
    /\ UNCHANGED <<location, lat, lon, requests, status, data, param_block, dates, f_error>>

\* df["t2m_range"] = ...; df["day_of_year"] = df["date"].dt.dayofyear
Derive ==
    /\ UNCHANGED d_vars
    /\ f_pc = "metadata"
    /\ df' = LET a == SetColumn(df, "t2m_range",
                                TempRange(ColumnOf(df, "t2m_max"), ColumnOf(df, "t2m_min")))
             IN  SetColumn(a, "day_of_year",
                           [i \in DOMAIN a.rows |-> DayOfYear(a.rows[i]["date"])])
    /\ f_pc' = "derived"
    /\ UNCHANGED <<location, lat, lon, requests, status, data, param_block, dates, f_error>>

\* df = df[[...]]; return df
ReorderAndReturn ==
    /\ UNCHANGED d_vars
    /\ f_pc = "derived"
    /\ IF CanSelect(df, Schema)
       THEN df' = Select(df, Schema) /\ f_pc' = "returned" /\ f_error' = f_error
       ELSE FFail("KeyError") /\ df' = df
    /\ UNCHANGED <<location, lat, lon, requests, status, data, param_block, dates>>

FNext ==
    \/ RequestConnectionError
    \/ Request
    \/ Extract
    \/ Build
    \/ AddMetadata
    \/ Derive
    \/ ReorderAndReturn

\* ---- the forecast driver: tables, text dates, sorting

\* Text is a sequence of character codes ("/" is 47, "0".."9" are 48..57).
Text_1_9_2020  == <<49, 47, 57, 47, 50, 48, 50, 48>>        \* "1/9/2020"
Text_1_10_2020 == <<49, 47, 49, 48, 47, 50, 48, 50, 48>>    \* "1/10/2020"
Text_bad       == <<98, 97, 100>>                           \* "bad"

\* Python's str comparison: by code point, a proper prefix first.
RECURSIVE StrLess(_, _)
StrLess(a, b) ==
    IF b = <<>> THEN FALSE
    ELSE IF a = <<>> THEN TRUE
    ELSE IF Head(a) # Head(b) THEN Head(a) < Head(b)
    ELSE StrLess(Tail(a), Tail(b))

\* The fields of a text between "/" separators.
RECURSIVE SplitSlash(_, _)
SplitSlash(s, cur) ==
    IF s = <<>> THEN <<cur>>
    ELSE IF Head(s) = 47 THEN <<cur>> \o SplitSlash(Tail(s), <<>>)
    ELSE SplitSlash(Tail(s), Append(cur, Head(s)))

IsDigits(f) == Len(f) > 0 /\ \A i \in DOMAIN f : f[i] \in 48..57

RECURSIVE ToInt(_)
ToInt(f) ==
    IF f = <<>> THEN 0
    ELSE ToInt(SubSeq(f, 1, Len(f) - 1)) * 10 + (f[Len(f)] - 48)

\* pd.to_datetime on a text cell: month/day/year, ParserError otherwise.
Coercible(s) ==
    LET fs == SplitSlash(s, <<>>)
    IN  /\ Len(fs) = 3
        /\ \A i \in 1..3 : IsDigits(fs[i])
        /\ ValidDate(ToInt(fs[3]), ToInt(fs[1]), ToInt(fs[2]))

ToDatetimeText(s) ==
    LET fs == SplitSlash(s, <<>>)
    IN  [year |-> ToInt(fs[3]), month |-> ToInt(fs[1]), day |-> ToInt(fs[2])]

\* What the parquet file may hold.
Cities == {"Chattanooga", "Nashville"}

city == "Chattanooga"

MaxVals == {300, 310}

\* Most rows the stored table has.
MaxRows == 3

DateCells(dtype) ==
    IF dtype = "datetime64"
    THEN {ToDatetimeYmd(20200109), ToDatetimeYmd(20200110), ToDatetimeYmd(20200201)}
    ELSE {Text_1_9_2020, Text_1_10_2020, Text_bad}

StoredRows(dtype) == [location : Cities, date : DateCells(dtype), t2m_max : MaxVals]

NoFile == [exists |-> FALSE, dtype |-> "none", rows |-> <<>>]

\* The files whose date column has the given dtype.
FilesOf(dtype) ==
    {[exists |-> TRUE, dtype |-> dtype, rows |-> r] :
        r \in UNION {[1..n -> StoredRows(dtype)] : n \in 0..MaxRows}}

NoFrame == [dtype |-> "none", rows |-> <<>>]

\* The order sort_values("date") sorts by: timestamps chronologically, text
\* (object dtype) the way Python compares str.
DateBefore(dtype, a, b) ==
    IF dtype = "datetime64" THEN Ordinal(a) < Ordinal(b) ELSE StrLess(a, b)

\* train[train["location"] == c]
WhereLocation(rows, c) == SelectSeq(rows, LAMBDA r : r.location = c)

\* The row orders sort_values("date") may leave (the default sort is not
\* stable: equal dates come out in any order).
SortedByDate(dtype, rows) ==
    {[i \in DOMAIN rows |-> rows[p[i]]] :
        p \in {q \in [DOMAIN rows -> DOMAIN rows] :
                  /\ IsInjective(q)
                  /\ \A i, j \in DOMAIN rows :
                        i < j => ~DateBefore(dtype, rows[q[j]].date, rows[q[i]].date)}}

\* df_train[["date", "t2m_max"]].rename(columns={"date": "ds", "t2m_max": "y"})
RenameColumns(rows) ==
    [i \in DOMAIN rows |-> [ds |-> rows[i].date, y |-> rows[i].t2m_max]]

\* periods of make_future_dataframe (365*2)
Periods == 730

\* ---- the forecast driver script, step by step

DInit ==
    /\ d_pc = "start"
    /\ file = NoFile
    /\ train = NoFrame
    /\ df_train = NoFrame
    /\ prophet_df = NoFrame
    /\ future = <<>>
    /\ d_error = ""

DFail(e) == d_pc' = "failed" /\ d_error' = e

\* train = pd.read_parquet(train_path)  (and the size / row-count printouts)
Load ==
    /\ UNCHANGED f_vars
    /\ d_pc = "start"
    /\ \E dtype \in {"none", "datetime64", "object"} :
       \E f \in (IF dtype = "none" THEN {NoFile} ELSE FilesOf(dtype)) :
          /\ file' = f
          /\ IF f.exists
             THEN /\ train' = [dtype |-> f.dtype, rows |-> f.rows]
                  /\ d_pc' = "loaded"
                  /\ d_error' = d_error
             ELSE DFail("FileNotFoundError") /\ train' = train
    /\ UNCHANGED <<df_train, prophet_df, future>>

\* df_train = train[train["location"] == city].sort_values("date").reset_index(drop=True)
Filter ==
    /\ UNCHANGED f_vars
    /\ d_pc = "loaded"
    /\ \E sorted \in SortedByDate(train.dtype, WhereLocation(train.rows, city)) :
          df_train' = [dtype |-> train.dtype, rows |-> sorted]
    /\ d_pc' = "filtered"
    /\ UNCHANGED <<file, train, prophet_df, future, d_error>>

\* if not is_datetime64_any_dtype(df_train["date"]): df_train["date"] = pd.to_datetime(...)
Coerce ==
    /\ UNCHANGED f_vars
    /\ d_pc = "filtered"
    /\ IF df_train.dtype = "datetime64"
       THEN df_train' = df_train /\ d_pc' = "coerced" /\ d_error' = d_error
       ELSE IF \A i \in DOMAIN df_train.rows : Coercible(df_train.rows[i].date)
       THEN /\ df_train' =
                [dtype |-> "datetime64",
                 rows  |-> [i \in DOMAIN df_train.rows |->
                              [df_train.rows[i] EXCEPT !.date = ToDatetimeText(@)]]]
            /\ d_pc' = "coerced"
            /\ d_error' = d_error
       ELSE DFail("ParserError") /\ df_train' = df_train
    /\ UNCHANGED <<file, train, prophet_df, future>>

\* prophet_df = df_train[["date", "t2m_max"]].rename(...)  (and the printouts)
Rename ==
    /\ UNCHANGED f_vars
    /\ d_pc = "coerced"
    /\ prophet_df' = [dtype |-> df_train.dtype, rows |-> RenameColumns(df_train.rows)]
    /\ d_pc' = "renamed"
    /\ UNCHANGED <<file, train, df_train, future, d_error>>

\* m = prophet.Prophet(...): the module imports the class only
\* (from prophet import Prophet), so the name `prophet` is unbound and the
\* statement raises NameError.  Nothing after it runs.
Construct ==
    /\ UNCHANGED f_vars
    /\ d_pc = "renamed"
    /\ DFail("NameError")
    /\ UNCHANGED <<file, train, df_train, prophet_df, future>>

DNext ==
    \/ Load
    \/ Filter
    \/ Coerce
    \/ Rename
    \/ Construct

Init == FInit /\ DInit

\* The fetcher and the driver are separate programs without shared state:
\* each is run on its own.
SpecFetch == Init /\ [][FNext]_vars

SpecDriver == Init /\ [][DNext]_vars

\* ---- properties of fetch_nasa_power_data

Returned == f_pc = "returned"

\* The dates of the reference (T2M) mapping of the response.
T2MKeys == param_block["T2M"].keys

\* Every date that occurs anywhere in the response.
ResponseDates == UNION {Range(param_block[p].keys) : p \in DOMAIN param_block}

\* C1 as stated: a returned table has as many rows as the response has
\* distinct dates, whatever date sets the eleven mappings carry.
C1_RowsEqualResponseDates ==
    Returned => Len(df.rows) = Cardinality(ResponseDates)

\* C1 amended: a returned table has as many rows as the reference (T2M)
\* mapping has distinct dates; that is the number of distinct dates of the
\* response when no mapping carries a date the T2M mapping lacks.
C1_RowsEqualReferenceDates ==
    Returned =>
        /\ Len(df.rows) = Cardinality(DOMAIN param_block["T2M"].val)
        /\ (\A p \in DOMAIN param_block : Range(param_block[p].keys) \subseteq Range(T2MKeys))
              => Len(df.rows) = Cardinality(ResponseDates)

C1_Witness ==
    /\ Returned
    /\ Len(df.rows) >= 1
    /\ \E p \in DOMAIN param_block : Range(param_block[p].keys) # Range(T2MKeys)

\* C2: a returned table has exactly the seventeen documented columns, in the
\* documented order.
C2_DocumentedColumns ==
    Returned => df.columns = DocumentedColumns

LacksEntry ==
    /\ "T2M" \in DOMAIN param_block
    /\ \E p \in ParamSet, d \in Range(T2MKeys) :
          p \notin DOMAIN param_block \/ d \notin DOMAIN param_block[p].val

\* C4: when some mapping lacks an entry for a date of the reference mapping,
\* building the table fails with a key-lookup error and no table exists,
\* partial or otherwise.
C4_MissingEntryFails ==
    (LacksEntry /\ f_pc # "extracted") =>
        f_pc = "failed" /\ f_error = "KeyError" /\ df = NoTable

C4_Witness ==
    /\ f_pc = "failed"
    /\ f_error = "KeyError"
    /\ Len(dates) >= 2
    /\ \E p \in DOMAIN param_block :
          /\ dates[1] \in DOMAIN param_block[p].val
          /\ dates[2] \notin DOMAIN param_block[p].val

\* C8: in every row of a returned table t2m_range is t2m_max minus t2m_min
\* of that row.
C8_RangeIsMaxMinusMin ==
    Returned =>
        \A i \in DOMAIN df.rows :
            df.rows[i]["t2m_range"] = df.rows[i]["t2m_max"] - df.rows[i]["t2m_min"]

C8_Witness ==
    /\ Returned
    /\ Len(df.rows) >= 2
    /\ df.rows[1]["t2m_range"] # df.rows[2]["t2m_range"]
    /\ df.rows[1]["t2m_range"] # 0

\* C9: row i of a returned table carries the i-th key of the reference
\* mapping, in that mapping's own order, and each reading column holds what
\* its parameter mapping stores under that very key.
C9_RowsFollowReferenceKeys ==
    Returned =>
        /\ Len(df.rows) = Len(T2MKeys)
        /\ \A i \in DOMAIN df.rows :
              /\ Ordinal(df.rows[i]["date"]) = T2MKeys[i]
              /\ \A c \in ReadingColumns :
                    df.rows[i][c] = param_block[ParamOf(c)].val[T2MKeys[i]]

C9_Witness ==
    /\ Returned
    /\ Len(df.rows) >= 2
    /\ T2MKeys[1] > T2MKeys[2]
    /\ \E p \in DOMAIN param_block : param_block[p].keys # T2MKeys

\* ---- properties of the forecast driver

\* The stored rows of the requested location.
CityRows == WhereLocation(file.rows, city)

\* The input file exists and holds rows of the requested location whose
\* dates are timestamps or text that coerces to timestamps.
GoodInput ==
    /\ file.exists
    /\ CityRows # <<>>
    /\ file.dtype = "object" => \A i \in DOMAIN CityRows : Coercible(CityRows[i].date)

\* The filter has run and selected no row.
EmptySelection ==
    /\ d_pc \notin {"start", "loaded"}
    /\ file.exists
    /\ df_train.rows = <<>>

\* C5: a location absent from the data selects zero rows, and the run stops
\* there with an input-validation failure: the empty series is carried no
\* further (the only failure it may end in is the one raised for it, not one
\* of a later step).
C5_EmptySelectionRejected ==
    EmptySelection =>
        /\ CityRows = <<>>
        /\ d_pc = "failed"
        /\ d_error \notin {"NameError", "ParserError"}

\* C6: on good input the run goes load, filter, rename, fit, predict, plot
\* and does not end in a failure.
C6_GoodInputRunsToPlot ==
    GoodInput => d_pc # "failed"

\* C7: once the run has ended on good input, the extended date index has
\* the rows of the fitted series plus 730 further daily steps.
C7_ForecastLength ==
    (GoodInput /\ d_pc = "failed") =>
        Len(future) = Len(prophet_df.rows) + Periods

\* C10: the series handed to the model holds rows of the requested location
\* only, in ascending chronological order.
C10_SeriesChronological ==
    d_pc = "renamed" =>
        /\ Len(prophet_df.rows) = Len(df_train.rows)
        /\ \A i \in DOMAIN df_train.rows : df_train.rows[i].location = city
        /\ \A i, j \in DOMAIN prophet_df.rows :
              i < j => Ordinal(prophet_df.rows[i].ds) <= Ordinal(prophet_df.rows[j].ds)

====
